---- MODULE Spec2Model ----
(***************************************************************************)
(* RouteTopology (src/topology.py): build_graph, largest_component,        *)
(* _bfs_longest_path, longest_path and build_ordered_route, as one         *)
(* invocation of build_ordered_route on a list of segments.                *)
(*                                                                         *)
(* A node is a (lon, lat) pair; the code compares nodes by equality only,  *)
(* so a node is modelled as a number: distinct numbers are distinct        *)
(* coordinate pairs, and the order of the numbers is the lexicographic     *)
(* order of the pairs.  Inputs are enumerated up to renaming of the nodes  *)
(* (nodes numbered in order of first appearance in the input).             *)
(*                                                                         *)
(* Python leaves the iteration order of a set unspecified: every `for x in *)
(* set` and `next(iter(set))` is a nondeterministic choice here.           *)
(*                                                                         *)
(* GeoMath.haversine is a pure symmetric function of two points with       *)
(* non-negative results; floating point lets two distinct points be at     *)
(* distance 0.0 (haversine(0, 0, 0, 1e-200) == 0.0).  Its value for a pair *)
(* of points is chosen from 0 .. MaxW the first time the pair is measured  *)
(* and is the same ever after (hav).  Distances add exactly.               *)
(***************************************************************************)
EXTENDS Integers, Sequences, FiniteSets, TLC

\* Bounds of the model.
MaxSegs == 2        \* segments in the input list
MaxPts  == 5        \* points in the input list, all segments together
MaxW    == 2        \* largest value of haversine for one edge
MaxRoute == 3       \* nodes of a route handed to termini directly
MaxParPts == 3      \* points of the input of each of two concurrent invocations
MaxArg  == 3        \* nodes of a graph handed to largest_component or longest_path directly
MaxClients == 2     \* route_builder processes uploading at the same time
MaxRouteIds == 2    \* route ids they upload
MaxCoords == 2      \* coordinate strings they upload
MaxRuns == 2        \* upload runs of each client

Node == 1 .. MaxPts

VARIABLES
    segments,     \* build_ordered_route's argument
    pc,           \* position in build_ordered_route and its callees
    graph,        \* build_graph's Adj: node -> set of neighbours
    nodes,        \* build_graph's node set
    iter,         \* largest_component: nodes `for node in nodes` has yet to yield
    seen,         \* largest_component: seen
    components,   \* largest_component: components (a list of lists)
    stack,        \* largest_component: stack
    comp,         \* largest_component: comp (a list)
    comp_nodes,   \* the set largest_component returned
    sweep,        \* 0 before longest_path, then 1 or 2: the running _bfs_longest_path call
    start,        \* _bfs_longest_path: start
    visited,      \* _bfs_longest_path: visited, node -> [dist, path]
    q,            \* _bfs_longest_path: q
    cur,          \* _bfs_longest_path: cur (0 when none)
    todo,         \* _bfs_longest_path: neighbours `for nxt in graph.get(cur, ())` has yet to yield
    far,          \* _bfs_longest_path: [farthest, maxdist, maxpath]
    first,        \* longest_path: start of the first sweep (0 before)
    route,        \* build_ordered_route's result
    hav,          \* the values of GeoMath.haversine measured so far: {a, b} -> km
    ends,         \* what termini returned (<< >> before its call)
    other,        \* two invocations: the locals of the one that is not running now
    tid,          \* two invocations: the one running now, 1 or 2 (0: a single call)
    table,        \* the rows of the routes table: [id, route, route_path]
    created,      \* whether ensure_table has created the table
    nextid,       \* the next fresh UUID
    client,       \* route_builder upload runs: client -> [pc, route, coords, exists, runs]
    mpc,          \* route_builder.main: its position ("none": main is not running)
    already_ordered,  \* route_builder.main: already_ordered
    log,          \* route_builder.main: the steps it has completed, in order
    alt,          \* convert_route.py: the run of build_route_topology set beside the call
    dbm,          \* DBManager: the attributes [conn, tunnel, local_port] (_conn, _tunnel, _local_port)
    opened,       \* the connections psycopg2.connect returned that are not closed
    wpc           \* the user of a DBManager: its position at the `with` block ("none": no user)

\* The variables of one build_ordered_route invocation.
topoVars == << segments, pc, graph, nodes, iter, seen, components, stack, comp,
               comp_nodes, sweep, start, visited, q, cur, todo, far, first, route, hav >>

\* The variables outside build_ordered_route.
parVars == << other, tid >>
dbVars == << table, created, nextid, client >>
mainVars == << mpc, already_ordered, log >>
connVars == << dbm, opened, wpc >>
outVars == << ends, parVars, dbVars, mainVars, alt, connVars >>

vars == << topoVars, outVars >>

lcVars  == << iter, seen, components, stack, comp >>
bfsVars == << sweep, start, visited, q, cur, todo, far, first, hav >>

----------------------------------------------------------------------------
\* Helpers on sequences and sets.

Range(s) == { s[i] : i \in DOMAIN s }

SeqMax(s) == IF s = << >> THEN 0 ELSE CHOOSE m \in Range(s) : \A x \in Range(s) : x <= m

Min(S) == CHOOSE m \in S : \A x \in S : m <= x

\* All orders in which a set can be iterated.
Perms(S) == { p \in [1 .. Cardinality(S) -> S] : Range(p) = S }

----------------------------------------------------------------------------
\* The inputs: every list of at most MaxSegs segments holding at most MaxPts
\* points together, nodes numbered in order of first appearance.

\* Sequences of n nodes numbered in order of first appearance.
RECURSIVE Numbered(_)
Numbered(n) ==
    IF n = 0 THEN { << >> }
    ELSE UNION { { Append(s, k) : k \in 1 .. (SeqMax(s) + 1) } : s \in Numbered(n - 1) }

RECURSIVE SeqSum(_)
SeqSum(s) == IF s = << >> THEN 0 ELSE Head(s) + SeqSum(Tail(s))

\* The lengths of the segments of an input.
Shapes ==
    UNION { { sh \in [1 .. k -> 0 .. MaxPts] : SeqSum(sh) <= MaxPts } : k \in 0 .. MaxSegs }

\* flat cut into segments of the lengths sh.
RECURSIVE Split(_, _)
Split(flat, sh) ==
    IF sh = << >> THEN << >>
    ELSE << SubSeq(flat, 1, Head(sh)) >>
         \o Split(SubSeq(flat, Head(sh) + 1, Len(flat)), Tail(sh))

Inputs == UNION { { Split(flat, sh) : flat \in Numbered(SeqSum(sh)) } : sh \in Shapes }

----------------------------------------------------------------------------
\* build_graph

\* graph.get(k, ())
Get(g, k) == IF k \in DOMAIN g THEN g[k] ELSE {}

\* SetDefaultAdd as graph[k] = {v}: the neighbours stored before are lost.
SetDefaultAssign(g, k, v) ==
    [ x \in (DOMAIN g) \cup {k} |-> IF x = k THEN {v} ELSE g[x] ]

\* graph.setdefault(k, set()).add(v)
SetDefaultAdd(g, k, v) ==
    [ x \in (DOMAIN g) \cup {k} |-> IF x = k THEN Get(g, k) \cup {v} ELSE g[x] ]

\* AddPair with the edge stored under a only.
AddPairOneWay(st, a, b) ==
    [ graph |-> SetDefaultAdd(st.graph, a, b),
      nodes |-> st.nodes \cup {a, b} ]

\* AddPair with update((a, b)) on the neighbour sets, as on the node set.
AddPairUpdate(st, a, b) ==
    [ graph |-> SetDefaultAdd(SetDefaultAdd(SetDefaultAdd(SetDefaultAdd(
                    st.graph, a, a), a, b), b, a), b, b),
      nodes |-> st.nodes \cup {a, b} ]

\* One turn of the inner loop of build_graph, for a, b = seg[i], seg[i + 1].
AddPair(st, a, b) ==
    [ graph |-> SetDefaultAdd(SetDefaultAdd(st.graph, a, b), b, a),
      nodes |-> st.nodes \cup {a, b} ]

\* for i in range(len(seg) - 1), from i on (i counted from 1)
RECURSIVE BuildSeg(_, _, _)
BuildSeg(st, seg, i) ==
    IF i >= Len(seg) THEN st
    ELSE BuildSeg(AddPair(st, seg[i], seg[i + 1]), seg, i + 1)

\* for seg in segments, from the k-th on
RECURSIVE BuildSegs(_, _, _)
BuildSegs(st, segs, k) ==
    IF k > Len(segs) THEN st
    ELSE BuildSegs(BuildSeg(st, segs[k], 1), segs, k + 1)

build_graph(segs) == BuildSegs([ graph |-> << >>, nodes |-> {} ], segs, 1)

----------------------------------------------------------------------------
\* largest_component

\* s with x inserted after every element at least as long as x.
RECURSIVE InsertByLen(_, _)
InsertByLen(s, x) ==
    IF s = << >> THEN << x >>
    ELSE IF Len(Head(s)) >= Len(x) THEN << Head(s) >> \o InsertByLen(Tail(s), x)
    ELSE << x >> \o s

\* The sort left out.
NoSort(s) == s

\* components.sort(key=len, reverse=True): longest first, and the sort is
\* stable (lists of equal length keep their order).
RECURSIVE SortByLenDesc(_)
SortByLenDesc(s) ==
    IF s = << >> THEN << >>
    ELSE InsertByLen(SortByLenDesc(SubSeq(s, 1, Len(s) - 1)), s[Len(s)])

\* FirstAsSet keeping the first node of the first component only.
FirstNodeOnly(cs) == IF cs # << >> THEN { cs[1][1] } ELSE {}

\* FirstAsSet taking components[-1].
LastAsSet(cs) == IF cs # << >> THEN Range(cs[Len(cs)]) ELSE {}

\* set(components[0]) if components else set()
FirstAsSet(cs) == IF cs # << >> THEN Range(cs[1]) ELSE {}

----------------------------------------------------------------------------
\* _bfs_longest_path

\* The values GeoMath.haversine(cur[1], cur[0], nxt[1], nxt[0]) can have.
Haversine(a, b) ==
    IF a = b THEN {0}
    ELSE IF {a, b} \in DOMAIN hav THEN { hav[{a, b}] }
    ELSE 0 .. MaxW

\* Visit with path + [cur, nxt].
VisitDupCur(v, c, nxt, seglen) ==
    [ dist |-> v[c].dist + seglen, path |-> v[c].path \o << c, nxt >> ]

\* Visit counting edges instead of adding their lengths.
VisitHops(v, c, nxt, seglen) ==
    [ dist |-> v[c].dist + 1, path |-> Append(v[c].path, nxt) ]

\* Visit with ndist = seglen: the distance of the last edge alone.
VisitLastEdge(v, c, nxt, seglen) ==
    [ dist |-> seglen, path |-> Append(v[c].path, nxt) ]

\* dist, path = visited[c]; ndist = dist + seglen;
\* the entry visited[nxt] = (ndist, path + [nxt])
Visit(v, c, nxt, seglen) ==
    [ dist |-> v[c].dist + seglen, path |-> Append(v[c].path, nxt) ]

\* Farther keeping the node visited last, whatever its distance.
FartherLast(f, nxt, ndist, npath) ==
    [ farthest |-> nxt, maxdist |-> ndist, maxpath |-> npath ]

\* Farther with `if ndist < maxdist`.
FartherSmaller(f, nxt, ndist, npath) ==
    IF ndist < f.maxdist
    THEN [ farthest |-> nxt, maxdist |-> ndist, maxpath |-> npath ]
    ELSE f

\* if ndist > maxdist: farthest, maxdist, maxpath = nxt, ndist, path + [nxt]
Farther(f, nxt, ndist, npath) ==
    IF ndist > f.maxdist
    THEN [ farthest |-> nxt, maxdist |-> ndist, maxpath |-> npath ]
    ELSE f

\* SecondStart running the second sweep from the first sweep's start again.
SecondStartSame(f, s) == s

\* a, _, _ = self._bfs_longest_path(graph, start): the start of the second
\* sweep, given the first sweep's result f and its start s.
SecondStart(f, s) == f.farthest

\* BfsEnter with farthest, maxdist, maxpath = start, 0.0, []: no path until
\* a node farther than the start is met.
BfsEnterNoPath(s) ==
    /\ start' = s
    /\ visited' = (s :> [ dist |-> 0, path |-> << s >> ])
    /\ q' = << s >>
    /\ far' = [ farthest |-> s, maxdist |-> 0, maxpath |-> << >> ]
    /\ cur' = 0
    /\ todo' = {}

\* visited = {start: (0.0, [start])}; q = deque([start]);
\* farthest, maxdist, maxpath = start, 0.0, [start]
BfsEnter(s) ==
    /\ start' = s
    /\ visited' = (s :> [ dist |-> 0, path |-> << s >> ])
    /\ q' = << s >>
    /\ far' = [ farthest |-> s, maxdist |-> 0, maxpath |-> << s >> ]
    /\ cur' = 0
    /\ todo' = {}

----------------------------------------------------------------------------
\* One call of build_ordered_route: no second invocation, no database, no
\* route_builder.main around it.
NoPar == other = << >> /\ tid = 0

NoDb == table = {} /\ created = FALSE /\ nextid = 1 /\ client = << >>

NoMain == mpc = "none" /\ already_ordered = FALSE /\ log = << >>

NoAlt == alt = << >>

\* None, for the attributes of a DBManager.
None == 0

NoConn ==
    /\ dbm = [ conn |-> None, tunnel |-> None, local_port |-> None ]
    /\ opened = {}
    /\ wpc = [ at |-> "none", m |-> "none", n |-> 0, raised_at |-> "none",
               exc |-> FALSE, stop |-> "none" ]

Init ==
    /\ segments \in Inputs
    /\ pc = "build"
    /\ graph = << >>
    /\ nodes = {}
    /\ iter = {}
    /\ seen = {}
    /\ components = << >>
    /\ stack = << >>
    /\ comp = << >>
    /\ comp_nodes = {}
    /\ sweep = 0
    /\ start = 0
    /\ visited = << >>
    /\ q = << >>
    /\ cur = 0
    /\ todo = {}
    /\ far = [ farthest |-> 0, maxdist |-> 0, maxpath |-> << >> ]
    /\ first = 0
    /\ route = << >>
    /\ hav = << >>
    /\ ends = << >>
    /\ NoPar
    /\ NoDb
    /\ NoMain
    /\ NoAlt
    /\ NoConn

\* build_ordered_route: graph, nodes = self.build_graph(segments), and the
\* call of largest_component.
BuildGraph ==
    /\ pc = "build"
    /\ LET st == build_graph(segments)
       IN  /\ graph' = st.graph
           /\ nodes' = st.nodes
           /\ iter' = st.nodes
    /\ pc' = "lc_for"
    /\ UNCHANGED << segments, seen, components, stack, comp, comp_nodes, route >>
    /\ UNCHANGED bfsVars
    /\ UNCHANGED outVars

\* for node in nodes: if node in seen: continue; stack, comp = [node], []
LcFor ==
    /\ pc = "lc_for"
    /\ \E node \in iter :
        /\ iter' = iter \ {node}
        /\ IF node \in seen
           THEN UNCHANGED << pc, stack, comp >>
           ELSE /\ stack' = << node >>
                /\ comp' = << >>
                /\ pc' = "lc_while"
    /\ UNCHANGED << segments, graph, nodes, seen, components, comp_nodes, route >>
    /\ UNCHANGED bfsVars
    /\ UNCHANGED outVars

\* LcWhile pushing one of the unseen neighbours only.
LcWhileOneNeighbour ==
    /\ pc = "lc_while"
    /\ stack # << >>
    /\ LET top  == stack[Len(stack)]
           rest == SubSeq(stack, 1, Len(stack) - 1)
           new  == { n \in Get(graph, top) : n \notin seen \cup {top} }
       IN  IF top \in seen
           THEN /\ stack' = rest
                /\ UNCHANGED << seen, comp >>
           ELSE /\ seen' = seen \cup {top}
                /\ comp' = Append(comp, top)
                /\ IF new = {} THEN stack' = rest
                   ELSE \E n \in new : stack' = Append(rest, n)
    /\ UNCHANGED << segments, pc, graph, nodes, iter, components, comp_nodes, route >>
    /\ UNCHANGED bfsVars
    /\ UNCHANGED outVars

\* LcWhile reading cur = stack[-1] and popping it only when it is recorded:
\* a node met again while it waits on the stack stays on top of it.
LcWhilePeek ==
    /\ pc = "lc_while"
    /\ stack # << >>
    /\ LET top  == stack[Len(stack)]
           rest == SubSeq(stack, 1, Len(stack) - 1)
       IN  IF top \in seen
           THEN UNCHANGED << stack, seen, comp >>
           ELSE /\ seen' = seen \cup {top}
                /\ comp' = Append(comp, top)
                /\ \E ord \in Perms({ n \in Get(graph, top) : n \notin seen \cup {top} }) :
                      stack' = rest \o ord
    /\ UNCHANGED << segments, pc, graph, nodes, iter, components, comp_nodes, route >>
    /\ UNCHANGED bfsVars
    /\ UNCHANGED outVars

\* One turn of `while stack`.
LcWhile ==
    /\ pc = "lc_while"
    /\ stack # << >>
    /\ LET top  == stack[Len(stack)]
           rest == SubSeq(stack, 1, Len(stack) - 1)
       IN  IF top \in seen
           THEN /\ stack' = rest
                /\ UNCHANGED << seen, comp >>
           ELSE /\ seen' = seen \cup {top}
                /\ comp' = Append(comp, top)
                /\ \E ord \in Perms({ n \in Get(graph, top) : n \notin seen \cup {top} }) :
                       stack' = rest \o ord
    /\ UNCHANGED << segments, pc, graph, nodes, iter, components, comp_nodes, route >>
    /\ UNCHANGED bfsVars
    /\ UNCHANGED outVars

\* components.append(comp)
LcAppend ==
    /\ pc = "lc_while"
    /\ stack = << >>
    /\ components' = Append(components, comp)
    /\ pc' = "lc_for"
    /\ UNCHANGED << segments, graph, nodes, iter, seen, stack, comp, comp_nodes, route >>
    /\ UNCHANGED bfsVars
    /\ UNCHANGED outVars

\* components.sort(key=len, reverse=True);
\* return set(components[0]) if components else set()
LcReturn ==
    /\ pc = "lc_for"
    /\ iter = {}
    /\ comp_nodes' = FirstAsSet(SortByLenDesc(components))
    /\ pc' = "longest_path"
    \* the locals of largest_component end with the call
    /\ seen' = {}
    /\ components' = << >>
    /\ stack' = << >>
    /\ comp' = << >>
    /\ UNCHANGED << segments, graph, nodes, iter, route >>
    /\ UNCHANGED bfsVars
    /\ UNCHANGED outVars

\* LongestPath without `if not comp_nodes: return []`: next(iter(comp_nodes))
\* has no value for the empty set.
LongestPathNoGuard ==
    /\ pc = "longest_path"
    /\ \E s \in comp_nodes :
          /\ first' = s
          /\ BfsEnter(s)
    /\ sweep' = 1
    /\ pc' = "bfs_while"
    /\ UNCHANGED << route, hav >>
    /\ UNCHANGED << segments, graph, nodes, comp_nodes >>
    /\ UNCHANGED lcVars
    /\ UNCHANGED outVars

\* longest_path, to the first call of _bfs_longest_path.
LongestPath ==
    /\ pc = "longest_path"
    /\ IF comp_nodes = {}
       THEN /\ route' = << >>
            /\ pc' = "done"
            /\ UNCHANGED bfsVars
       ELSE /\ \E s \in comp_nodes :
                 /\ first' = s
                 /\ BfsEnter(s)
            /\ sweep' = 1
            /\ pc' = "bfs_while"
            /\ UNCHANGED << route, hav >>
    /\ UNCHANGED << segments, graph, nodes, comp_nodes >>
    /\ UNCHANGED lcVars
    /\ UNCHANGED outVars

\* BfsPop reading the neighbours with graph.setdefault(cur, set()): a node
\* with no entry gets one.
BfsPopSetDefault ==
    /\ pc = "bfs_while"
    /\ q # << >>
    /\ cur' = Head(q)
    /\ q' = Tail(q)
    /\ todo' = Get(graph, Head(q))
    /\ graph' = [ n \in (DOMAIN graph) \cup {Head(q)} |-> Get(graph, n) ]
    /\ pc' = IF todo' = {} THEN "bfs_while" ELSE "bfs_for"
    /\ UNCHANGED << segments, nodes, comp_nodes, route,
                    sweep, start, visited, far, first, hav >>
    /\ UNCHANGED lcVars
    /\ UNCHANGED outVars

\* cur = q.popleft(); dist, path = visited[cur]; for nxt in graph.get(cur, ())
BfsPop ==
    /\ pc = "bfs_while"
    /\ q # << >>
    /\ cur' = Head(q)
    /\ q' = Tail(q)
    /\ todo' = Get(graph, Head(q))
    /\ pc' = IF todo' = {} THEN "bfs_while" ELSE "bfs_for"
    /\ UNCHANGED << segments, graph, nodes, comp_nodes, route,
                    sweep, start, visited, far, first, hav >>
    /\ UNCHANGED lcVars
    /\ UNCHANGED outVars

\* BfsFor without `if nxt in visited: continue`: a node met again is
\* recorded and enqueued again.
BfsForRevisit ==
    /\ pc = "bfs_for"
    /\ \E nxt \in todo :
        /\ todo' = todo \ {nxt}
        /\ \E seglen \in Haversine(cur, nxt) :
              LET e == Visit(visited, cur, nxt, seglen)
              IN  /\ hav' = [ p \in (DOMAIN hav) \cup {{cur, nxt}} |->
                                IF p = {cur, nxt} THEN seglen ELSE hav[p] ]
                  /\ visited' = [ n \in (DOMAIN visited) \cup {nxt} |->
                                    IF n = nxt THEN e ELSE visited[n] ]
                  /\ far' = Farther(far, nxt, e.dist, e.path)
                  /\ q' = Append(q, nxt)
    /\ pc' = IF todo' = {} THEN "bfs_while" ELSE "bfs_for"
    /\ UNCHANGED << segments, graph, nodes, comp_nodes, route, sweep, start, cur, first >>
    /\ UNCHANGED lcVars
    /\ UNCHANGED outVars

\* One turn of `for nxt in graph.get(cur, ())`.
BfsFor ==
    /\ pc = "bfs_for"
    /\ \E nxt \in todo :
        /\ todo' = todo \ {nxt}
        /\ IF nxt \in DOMAIN visited
           THEN UNCHANGED << visited, q, far, hav >>
           ELSE \E seglen \in Haversine(cur, nxt) :
                  LET e == Visit(visited, cur, nxt, seglen)
                  IN  /\ hav' = [ p \in (DOMAIN hav) \cup {{cur, nxt}} |->
                                    IF p = {cur, nxt} THEN seglen ELSE hav[p] ]
                      /\ visited' = [ n \in (DOMAIN visited) \cup {nxt} |->
                                        IF n = nxt THEN e ELSE visited[n] ]
                      /\ far' = Farther(far, nxt, e.dist, e.path)
                      /\ q' = Append(q, nxt)
    /\ pc' = IF todo' = {} THEN "bfs_while" ELSE "bfs_for"
    /\ UNCHANGED << segments, graph, nodes, comp_nodes, route, sweep, start, cur, first >>
    /\ UNCHANGED lcVars
    /\ UNCHANGED outVars

\* return farthest, maxdist, maxpath: to longest_path, which runs the second
\* sweep from the first one's farthest node and returns the second one's path.
BfsReturn ==
    /\ pc = "bfs_while"
    /\ q = << >>
    /\ IF sweep = 1
       THEN /\ BfsEnter(SecondStart(far, start))
            /\ sweep' = 2
            /\ UNCHANGED << pc, route >>
       ELSE /\ route' = far.maxpath
            /\ pc' = "done"
            /\ UNCHANGED << sweep, start, visited, q, cur, todo, far >>
    /\ UNCHANGED << segments, graph, nodes, comp_nodes, first, hav >>
    /\ UNCHANGED lcVars
    /\ UNCHANGED outVars

Next ==
    \/ BuildGraph
    \/ LcFor
    \/ LcWhile
    \/ LcAppend
    \/ LcReturn
    \/ LongestPath
    \/ BfsPop
    \/ BfsFor
    \/ BfsReturn

Spec == Init /\ [][Next]_vars

----------------------------------------------------------------------------
\* termini, called on a route of any content.

\* The point (0.0, 0.0).  It can be a point of a route as well.
Origin == 0

\* No build_ordered_route call is under way: its locals have no value.
NoCall ==
    /\ graph = << >>
    /\ nodes = {}
    /\ iter = {}
    /\ seen = {}
    /\ components = << >>
    /\ stack = << >>
    /\ comp = << >>
    /\ comp_nodes = {}
    /\ sweep = 0
    /\ start = 0
    /\ visited = << >>
    /\ q = << >>
    /\ cur = 0
    /\ todo = {}
    /\ far = [ farthest |-> 0, maxdist |-> 0, maxpath |-> << >> ]
    /\ first = 0
    /\ hav = << >>

\* termini returning (last, first).
TerminiSwapped(r) ==
    IF r = << >> THEN << Origin, Origin >> ELSE << r[Len(r)], r[1] >>

\* if not ordered_route: return ((0.0, 0.0), (0.0, 0.0))
\* return (ordered_route[0], ordered_route[-1])
termini(r) ==
    IF r = << >> THEN << Origin, Origin >> ELSE << r[1], r[Len(r)] >>

\* The routes termini is called on: every list of up to MaxRoute points,
\* repeated points and the origin included.
TerminiRoutes == UNION { [ 1 .. n -> Origin .. MaxRoute ] : n \in 0 .. MaxRoute }

InitTermini ==
    /\ route \in TerminiRoutes
    /\ pc = "termini"
    /\ segments = << >>
    /\ NoCall
    /\ ends = << >>
    /\ NoPar
    /\ NoDb
    /\ NoMain
    /\ NoAlt
    /\ NoConn

\* RouteTopology.termini(route)
Termini ==
    /\ pc = "termini"
    /\ ends' = termini(route)
    /\ pc' = "termini_done"
    /\ UNCHANGED << segments, graph, nodes, comp_nodes, route >>
    /\ UNCHANGED lcVars
    /\ UNCHANGED bfsVars
    /\ UNCHANGED << parVars, dbVars, mainVars, alt, connVars >>

SpecTermini == InitTermini /\ [][Termini]_vars

----------------------------------------------------------------------------
\* Two build_ordered_route invocations in two threads.  Every variable of
\* RouteTopology's methods is a local of the call (the class has no
\* attribute and the methods no default argument or global), so each
\* invocation has its own copy of all of them.  The thread that runs takes
\* the steps above on its own locals; the locals of the other are in `other`.
\* GeoMath.haversine is a pure function: its values (hav) are the same for
\* both.

\* The locals of the running invocation.
Locals ==
    [ segments |-> segments, pc |-> pc, graph |-> graph, nodes |-> nodes,
      iter |-> iter, seen |-> seen, components |-> components, stack |-> stack,
      comp |-> comp, comp_nodes |-> comp_nodes, sweep |-> sweep, start |-> start,
      visited |-> visited, q |-> q, cur |-> cur, todo |-> todo, far |-> far,
      first |-> first, route |-> route ]

\* The locals of an invocation on segs that has not taken a step.
Called(segs) ==
    [ segments |-> segs, pc |-> "build", graph |-> << >>, nodes |-> {},
      iter |-> {}, seen |-> {}, components |-> << >>, stack |-> << >>,
      comp |-> << >>, comp_nodes |-> {}, sweep |-> 0, start |-> 0,
      visited |-> << >>, q |-> << >>, cur |-> 0, todo |-> {},
      far |-> [ farthest |-> 0, maxdist |-> 0, maxpath |-> << >> ],
      first |-> 0, route |-> << >> ]

\* Resume with farthest, maxdist and maxpath kept in one place for all
\* invocations (attributes of the class) instead of in locals.
ResumeSharedFar(fr) ==
    /\ segments' = fr.segments /\ pc' = fr.pc /\ graph' = fr.graph
    /\ nodes' = fr.nodes /\ iter' = fr.iter /\ seen' = fr.seen
    /\ components' = fr.components /\ stack' = fr.stack /\ comp' = fr.comp
    /\ comp_nodes' = fr.comp_nodes /\ sweep' = fr.sweep /\ start' = fr.start
    /\ visited' = fr.visited /\ q' = fr.q /\ cur' = fr.cur /\ todo' = fr.todo
    /\ far' = far
    /\ first' = fr.first /\ route' = fr.route

\* The thread whose locals are fr runs next.
Resume(fr) ==
    /\ segments' = fr.segments /\ pc' = fr.pc /\ graph' = fr.graph
    /\ nodes' = fr.nodes /\ iter' = fr.iter /\ seen' = fr.seen
    /\ components' = fr.components /\ stack' = fr.stack /\ comp' = fr.comp
    /\ comp_nodes' = fr.comp_nodes /\ sweep' = fr.sweep /\ start' = fr.start
    /\ visited' = fr.visited /\ q' = fr.q /\ cur' = fr.cur /\ todo' = fr.todo
    /\ far' = fr.far
    /\ first' = fr.first /\ route' = fr.route

\* The inputs of the two invocations: one segment of up to MaxParPts points.
ParInputs == { in \in Inputs : Len(in) = 1 /\ Len(in[1]) <= MaxParPts }

\* The input `in` with d added to the number of every node: other points.
Shifted(in, d) == [ k \in DOMAIN in |-> [ i \in DOMAIN in[k] |-> in[k][i] + d ] ]

\* The two inputs are independent: the second has the same points as the
\* first or none of them.
InitPar ==
    /\ segments \in ParInputs
    /\ pc = "build"
    /\ NoCall
    /\ route = << >>
    /\ ends = << >>
    /\ tid = 1
    /\ NoDb
    /\ NoMain
    /\ NoAlt
    /\ NoConn
    /\ other \in { Called(Shifted(in, d)) : in \in ParInputs, d \in {0, MaxParPts} }

\* The scheduler suspends the running thread and runs the other one, which
\* has not returned yet.
Switch ==
    /\ tid # 0
    /\ other.pc # "done"
    /\ Resume(other)
    /\ other' = Locals
    /\ tid' = 3 - tid
    /\ UNCHANGED << hav, ends, dbVars, mainVars, alt, connVars >>

NextPar ==
    \/ BuildGraph
    \/ LcFor
    \/ LcWhile
    \/ LcAppend
    \/ LcReturn
    \/ LongestPath
    \/ BfsPop
    \/ BfsFor
    \/ BfsReturn
    \/ Switch

SpecPar == InitPar /\ [][NextPar]_vars

----------------------------------------------------------------------------
\* The three methods called one by one: build_graph on segments, and
\* largest_component and longest_path on arguments of the caller's making,
\* which need not come from build_graph (a node can have no entry in the
\* graph, an entry can name a node that has none).

ArgNode == 1 .. MaxArg

\* Every Adj over ArgNode.
ArgGraphs == UNION { [ K -> SUBSET ArgNode ] : K \in SUBSET ArgNode }

InitArgs ==
    /\ ends = << >>
    /\ NoPar
    /\ NoDb
    /\ NoMain
    /\ NoAlt
    /\ NoConn
    /\ seen = {}
    /\ components = << >>
    /\ stack = << >>
    /\ comp = << >>
    /\ sweep = 0
    /\ start = 0
    /\ visited = << >>
    /\ q = << >>
    /\ cur = 0
    /\ todo = {}
    /\ far = [ farthest |-> 0, maxdist |-> 0, maxpath |-> << >> ]
    /\ first = 0
    /\ route = << >>
    /\ hav = << >>
    /\ \/ \* build_ordered_route(segments)
          /\ pc = "build"
          /\ segments \in ParInputs
          /\ graph = << >>
          /\ nodes = {}
          /\ iter = {}
          /\ comp_nodes = {}
       \/ \* largest_component(nodes, graph), then longest_path(graph, its result)
          /\ pc = "lc_for"
          /\ segments = << >>
          /\ graph \in ArgGraphs
          /\ nodes \in SUBSET ArgNode
          /\ iter = nodes
          /\ comp_nodes = {}
       \/ \* longest_path(graph, comp_nodes)
          /\ pc = "longest_path"
          /\ segments = << >>
          /\ graph \in ArgGraphs
          /\ nodes = {}
          /\ iter = {}
          /\ comp_nodes \in SUBSET ArgNode

SpecArgs == InitArgs /\ [][Next]_vars

----------------------------------------------------------------------------
\* The upload branch of route_builder.main (src/route_builder.py, `with dbm:`)
\* run by several clients against one PostgreSQL table, through DBManager
\* (src/db_manager.py).  Every DBManager method opens a connection of its
\* own and commits before it closes it, so each is one transaction.

Clients == 1 .. MaxClients
RouteIds == 1 .. MaxRouteIds
Coords == 1 .. MaxCoords

\* INSERT into a table without the UNIQUE constraint on route.
InsertRowNoUnique(rows, id, r, p) ==
    [ ok |-> TRUE, rows |-> rows \cup { [ id |-> id, route |-> r, route_path |-> p ] } ]

\* INSERT INTO table (id, route, route_path) and commit, on the table of
\* ensure_table (route TEXT UNIQUE NOT NULL): a second row with the same
\* route is refused (psycopg2 raises UniqueViolation).
InsertRow(rows, id, r, p) ==
    IF \E row \in rows : row.route = r
    THEN [ ok |-> FALSE, rows |-> rows ]
    ELSE [ ok |-> TRUE, rows |-> rows \cup { [ id |-> id, route |-> r, route_path |-> p ] } ]

\* UPDATE table SET route_path = p WHERE route = r, and commit.
UpdateRows(rows, r, p) ==
    { IF row.route = r THEN [ row EXCEPT !.route_path = p ] ELSE row : row \in rows }

\* SELECT 1 FROM table WHERE route = r LIMIT 1; found = cur.fetchone() is not None
Found(rows, r) == \E row \in rows : row.route = r

InitDb ==
    /\ table = {}
    /\ created = FALSE
    /\ nextid = 1
    /\ client = [ c \in Clients |->
                    [ pc |-> "idle", route |-> 1, coords |-> 1, exists |-> FALSE,
                      runs |-> 0, last |-> "none" ] ]
    /\ segments = << >>
    /\ pc = "idle"
    /\ route = << >>
    /\ NoCall
    /\ ends = << >>
    /\ NoPar
    /\ NoMain
    /\ NoAlt
    /\ NoConn

\* main reaches `with dbm:` with the route id and the coordinates (not
\* empty) it read from the ordered file.
StartRun(c) ==
    /\ client[c].pc = "idle"
    /\ client[c].runs < MaxRuns
    /\ \E r \in RouteIds, p \in Coords :
          client' = [ client EXCEPT ![c] =
                        [ pc |-> "ensure", route |-> r, coords |-> p, exists |-> FALSE,
                          runs |-> client[c].runs + 1, last |-> "none" ] ]
    /\ UNCHANGED << table, created, nextid >>
    /\ UNCHANGED << topoVars, ends, parVars, mainVars, alt, connVars >>

\* dbm.ensure_database(dbname); dbm.ensure_table(dbname, tablename):
\* CREATE TABLE IF NOT EXISTS.
EnsureTable(c) ==
    /\ client[c].pc = "ensure"
    /\ created' = TRUE
    /\ client' = [ client EXCEPT ![c].pc = "check" ]
    /\ UNCHANGED << table, nextid >>
    /\ UNCHANGED << topoVars, ends, parVars, mainVars, alt, connVars >>

\* exists = dbm.route_exists(dbname, tablename, route_id)
RouteExists(c) ==
    /\ client[c].pc = "check"
    /\ created
    /\ LET found == Found(table, client[c].route)
       IN  client' = [ client EXCEPT ![c].exists = found,
                                     ![c].pc = IF found THEN "prompt" ELSE "insert" ]
    /\ UNCHANGED << table, created, nextid >>
    /\ UNCHANGED << topoVars, ends, parVars, mainVars, alt, connVars >>

\* choice = safe_input_default("... already exists. Update it? (Y/n)", "N")
Prompt(c) ==
    /\ client[c].pc = "prompt"
    /\ \E yes \in BOOLEAN :
          client' = [ client EXCEPT ![c].pc = IF yes THEN "update" ELSE "idle",
                                    ![c].last = IF yes THEN "none" ELSE "skipped" ]
    /\ UNCHANGED << table, created, nextid >>
    /\ UNCHANGED << topoVars, ends, parVars, mainVars, alt, connVars >>

\* dbm.upload_one_row(dbname, tablename, route_id, coords, allow_update=True)
\* and dbm.export_sql, which writes a file only.
UploadUpdate(c) ==
    /\ client[c].pc = "update"
    /\ table' = UpdateRows(table, client[c].route, client[c].coords)
    /\ client' = [ client EXCEPT ![c].pc = "idle", ![c].last = "updated" ]
    /\ UNCHANGED << created, nextid >>
    /\ UNCHANGED << topoVars, ends, parVars, mainVars, alt, connVars >>

\* dbm.upload_one_row(dbname, tablename, route_id, coords): the new row gets
\* a fresh id, from the column default or from uuid.uuid4().  When the INSERT
\* is refused the exception leaves upload_one_row and main.
UploadInsert(c) ==
    /\ client[c].pc = "insert"
    /\ LET res == InsertRow(table, nextid, client[c].route, client[c].coords)
       IN  /\ table' = res.rows
           /\ nextid' = IF res.ok THEN nextid + 1 ELSE nextid
           /\ client' = [ client EXCEPT ![c].pc = "idle",
                                        ![c].last = IF res.ok THEN "inserted" ELSE "raised" ]
    /\ UNCHANGED created
    /\ UNCHANGED << topoVars, ends, parVars, mainVars, alt, connVars >>

NextDb ==
    \E c \in Clients :
        \/ StartRun(c)
        \/ EnsureTable(c)
        \/ RouteExists(c)
        \/ Prompt(c)
        \/ UploadUpdate(c)
        \/ UploadInsert(c)

SpecDb == InitDb /\ [][NextDb]_vars

----------------------------------------------------------------------------
\* route_builder.main (src/route_builder.py) from the source file it was
\* given to the upload prompt.  The file is a raw FeatureCollection, whose
\* segments main hands to build_ordered_route, or an ordered file
\* ({route, route_data}), whose route main takes as it is.

InitMain ==
    /\ mpc = "start"
    /\ log = << >>
    /\ \/ /\ already_ordered = FALSE
          /\ segments \in Inputs
          /\ route = << >>
       \/ /\ already_ordered = TRUE
          /\ segments = << >>
          /\ route \in TerminiRoutes
    /\ pc = "idle"
    /\ NoCall
    /\ ends = << >>
    /\ NoPar
    /\ NoDb
    /\ NoAlt
    /\ NoConn

\* if already_ordered: route_id, ordered = extract_route_from_geojson(src)
\* else: route_id, segments = _load_segments(src);
\*       ordered = topo.build_ordered_route(segments): the call.
MainDetect ==
    /\ mpc = "start"
    /\ IF already_ordered
       THEN /\ mpc' = "prompt"
            /\ UNCHANGED pc
       ELSE /\ mpc' = "build"
            /\ pc' = "build"
    /\ UNCHANGED << segments, graph, nodes, comp_nodes, route, log, already_ordered >>
    /\ UNCHANGED lcVars
    /\ UNCHANGED bfsVars
    /\ UNCHANGED << ends, parVars, dbVars, alt, connVars >>

\* ordered = topo.build_ordered_route(segments): the return.
MainBuilt ==
    /\ mpc = "build"
    /\ pc = "done"
    /\ mpc' = "save"
    /\ log' = Append(log, "build")
    /\ UNCHANGED << topoVars, ends, parVars, dbVars, already_ordered, alt, connVars >>

\* write_ordered_geojson(out_geojson, route_id, ordered)
MainSaveGeojson ==
    /\ mpc = "save"
    /\ mpc' = "html"
    /\ log' = Append(log, "geojson")
    /\ UNCHANGED << topoVars, ends, parVars, dbVars, already_ordered, alt, connVars >>

\* What main passes to RouteMap.generate as geojson_path: ordered, a list.
GenerateArg == [ type |-> "list", value |-> route ]

\* open(x, "r", encoding="utf-8") takes a str, bytes or os.PathLike and
\* raises TypeError for anything else.
Opens(x) == x.type \in { "str", "bytes", "PathLike" }

\* rmap.generate(ordered, out_html), whose first statement is
\* open(geojson_path); rmap.clean_html(out_html); if ordered: the termini are
\* computed and printed.  Nothing in main catches the exception of open.
MainHtml ==
    /\ mpc = "html"
    /\ IF Opens(GenerateArg)
       THEN /\ mpc' = "prompt"
            /\ log' = log \o << "html", "clean" >>
                          \o (IF route # << >> THEN << "termini" >> ELSE << >>)
            /\ ends' = IF route # << >> THEN termini(route) ELSE ends
       ELSE /\ mpc' = "raised"
            /\ UNCHANGED << log, ends >>
    /\ UNCHANGED << topoVars, parVars, dbVars, already_ordered, alt, connVars >>

NextMain ==
    \/ MainDetect
    \/ BuildGraph
    \/ LcFor
    \/ LcWhile
    \/ LcAppend
    \/ LcReturn
    \/ LongestPath
    \/ BfsPop
    \/ BfsFor
    \/ BfsReturn
    \/ MainBuilt
    \/ MainSaveGeojson
    \/ MainHtml

SpecMain == InitMain /\ [][NextMain]_vars

----------------------------------------------------------------------------
\* Vocabulary of the properties.

\* build_graph has returned.
Built == pc # "build"

\* largest_component has returned.
Selected == pc \in { "longest_path", "bfs_while", "bfs_for", "done" }

\* build_ordered_route has returned.
Returned == pc = "done"

NoRepeat(s) == \A i, j \in DOMAIN s : i # j => s[i] # s[j]

\* Every two consecutive nodes of s are joined by an edge of the graph.
IsWalk(s) == \A i \in 1 .. (Len(s) - 1) : s[i + 1] \in Get(graph, s[i])

\* a and b are consecutive points of some segment, in this order.
Consecutive(a, b) ==
    \E k \in DOMAIN segments : \E i \in 1 .. (Len(segments[k]) - 1) :
        segments[k][i] = a /\ segments[k][i + 1] = b

\* A reference labelling of the components, independent of the traversal of
\* largest_component: the closure of a node under the neighbour relation.
RECURSIVE Closure(_)
Closure(S) ==
    LET T == S \cup UNION { Get(graph, x) : x \in S }
    IN  IF T = S THEN S ELSE Closure(T)

RefComponents == { Closure({n}) : n \in nodes }

\* The edges among the nodes C, each as the set of its ends.
CompEdges(C) == UNION { { {a, b} : b \in Get(graph, a) } : a \in C }

----------------------------------------------------------------------------
\* C1: the route returned by longest_path, and so by build_ordered_route,
\* holds no node twice, and every two consecutive nodes of it are joined by
\* an edge of the graph built from the segments.
C1_RouteIsSimpleWalk == Returned => NoRepeat(route) /\ IsWalk(route)

\* A route of three nodes or more returned for a component with a cycle (as
\* many edges as nodes, or more).
C1_Witness ==
    /\ Returned
    /\ Len(route) >= 3
    /\ Cardinality(CompEdges(comp_nodes)) >= Cardinality(comp_nodes)

\* C2: every node of the returned route belongs to the component
\* largest_component returned, and the route has at most as many nodes as
\* that component.
C2_RouteInComponent ==
    Returned => /\ Range(route) \subseteq comp_nodes
                /\ Len(route) <= Cardinality(comp_nodes)

\* A route returned for a graph of two components or more.
C2_Witness ==
    /\ Returned
    /\ Len(route) >= 2
    /\ comp_nodes # nodes

\* C3: for every segment and every two consecutive points of it, build_graph
\* has each in the neighbour set of the other, and both in the node set.
C3_EdgesBothWays ==
    Built => \A a, b \in Node :
                Consecutive(a, b) => /\ b \in Get(graph, a)
                                     /\ a \in Get(graph, b)
                                     /\ {a, b} \subseteq nodes

\* build_graph has returned for two segments of two points or more.
C3_Witness ==
    /\ Built
    /\ Len(segments) = 2
    /\ Len(segments[1]) >= 2
    /\ Len(segments[2]) >= 2

\* C4: the graph of build_graph has no edge but those of the segments, and
\* is symmetric: when b is a neighbour of a, some segment holds a and b as
\* consecutive points, in either order, and a is a neighbour of b.
C4_NoSpuriousEdge ==
    Built => \A a \in DOMAIN graph : \A b \in graph[a] :
                /\ Consecutive(a, b) \/ Consecutive(b, a)
                /\ a \in Get(graph, b)

\* build_graph has returned a graph in which some node has two neighbours
\* and two nodes are not joined.
C4_Witness ==
    /\ Built
    /\ \E a \in DOMAIN graph : Cardinality(graph[a]) >= 2
    /\ \E a, b \in nodes : a # b /\ b \notin Get(graph, a)

\* C5: the set largest_component returns has at least as many nodes as every
\* component of the reference labelling of the same graph.
C5_LargestComponent ==
    Selected => \A C \in RefComponents : Cardinality(comp_nodes) >= Cardinality(C)

\* largest_component has returned for a graph with components of two sizes.
C5_Witness ==
    /\ Selected
    /\ \E C, D \in RefComponents : Cardinality(C) < Cardinality(D)

----------------------------------------------------------------------------
\* Vocabulary of the properties on components, trees and paths.

\* The nodes in the order the specification fixes for tie-breaks: the
\* lexicographic order of the (lon, lat) pairs, which is the order of the
\* numbers that stand for them.
FirstInOrder(S) == Min(S)

MaxCard(Cs) == CHOOSE m \in { Cardinality(C) : C \in Cs } : \A C \in Cs : Cardinality(C) <= m

\* The component a traversal of the nodes in the fixed order selects: of the
\* components of maximum size, the one met first.
FixedOrderComponent ==
    IF nodes = {} THEN {}
    ELSE LET largest == { C \in RefComponents : Cardinality(C) = MaxCard(RefComponents) }
         IN  CHOOSE C \in largest : \A D \in largest : FirstInOrder(C) <= FirstInOrder(D)

\* The neighbour relation of the graph, and the one read off the segments.
GraphAdj == [ n \in Node |-> Get(graph, n) ]
InputAdj == [ n \in Node |-> { b \in Node : Consecutive(n, b) \/ Consecutive(b, n) } ]

\* The simple paths of the relation adj that start in C.
RECURSIVE GrowPaths(_, _)
GrowPaths(adj, P) ==
    IF P = {} THEN {}
    ELSE P \cup GrowPaths(adj,
             UNION { { Append(p, b) : b \in adj[p[Len(p)]] \ Range(p) } : p \in P })

SimplePaths(adj, C) == GrowPaths(adj, { << a >> : a \in C })

\* The length of the path p: the sum of the measured lengths of its edges.
RECURSIVE PathDist(_)
PathDist(p) ==
    IF Len(p) <= 1 THEN 0
    ELSE hav[{p[1], p[2]}] + PathDist(Tail(p))

SetMax(S) == CHOOSE m \in S : \A x \in S : x <= m

\* Every edge among the nodes C joins two nodes at a strictly positive
\* distance.
PositiveEdges(C) == \A e \in CompEdges(C) : e \in DOMAIN hav /\ hav[e] > 0

\* The component C is a tree: no self-loop, and one edge fewer than nodes
\* (a component is connected).
IsTree(C) ==
    /\ C # {}
    /\ \A a \in C : a \notin Get(graph, a)
    /\ Cardinality(CompEdges(C)) = Cardinality(C) - 1

\* The points of the input.
InputNodes == UNION { Range(segments[k]) : k \in DOMAIN segments }

\* The ends of segment k.
Ends(k) == { segments[k][1], segments[k][Len(segments[k])] }

\* The segments chain into one simple path: each is a chain of two distinct
\* points or more, two segments share end points only, and the points joined
\* as the segments join them form one path (connected, no node with more
\* than two neighbours, one edge fewer than nodes).
IsChain ==
    /\ segments # << >>
    /\ \A k \in DOMAIN segments : Len(segments[k]) >= 2 /\ NoRepeat(segments[k])
    /\ \A k, l \in DOMAIN segments :
           k # l => Range(segments[k]) \cap Range(segments[l]) \subseteq Ends(k) \cap Ends(l)
    /\ \A n \in InputNodes : Cardinality(InputAdj[n]) <= 2
    /\ \E p \in SimplePaths(InputAdj, InputNodes) : Range(p) = InputNodes
    /\ \E n \in InputNodes : Cardinality(InputAdj[n]) = 1

\* The two orders of the path the segments chain into.
PathOrders == { p \in SimplePaths(InputAdj, InputNodes) : Range(p) = InputNodes }

\* Two segments with no point in common, each a chain of distinct points,
\* segment s the shorter and segment l the longer.
TwoChains(s, l) ==
    /\ Len(segments) = 2
    /\ {s, l} = {1, 2}
    /\ Len(segments[s]) >= 2
    /\ Len(segments[s]) < Len(segments[l])
    /\ NoRepeat(segments[s])
    /\ NoRepeat(segments[l])
    /\ Range(segments[s]) \cap Range(segments[l]) = {}

----------------------------------------------------------------------------
\* C6: when several components tie for the maximum size, largest_component
\* returns the same component whatever the order in which the node set is
\* iterated: the one the fixed order of the nodes selects.
C6_SameComponentAnyOrder == Selected => comp_nodes = FixedOrderComponent

\* C7: longest_path starts its first sweep from the first node of
\* component_nodes in the fixed order of the nodes, not from an arbitrary one.
C7_StartIsFirstInOrder == first # 0 => first = FirstInOrder(comp_nodes)

\* C8: when the selected component is a tree whose edges all have strictly
\* positive distance, the total distance of the returned route is the
\* maximum, over the pairs of nodes of the component, of the distance of the
\* simple path between them, whichever node the first sweep starts from.
C8_ExactOnTrees ==
    (Returned /\ IsTree(comp_nodes) /\ PositiveEdges(comp_nodes))
        => PathDist(route) = SetMax({ PathDist(p) : p \in SimplePaths(GraphAdj, comp_nodes) })

\* A route returned for a tree with a branch node and edges of different
\* positive lengths, the first sweep started from a node that is not an end
\* of the route.
C8_Witness ==
    /\ Returned
    /\ IsTree(comp_nodes)
    /\ PositiveEdges(comp_nodes)
    /\ \E n \in comp_nodes : Cardinality(Get(graph, n)) >= 3
    /\ \E e, f \in CompEdges(comp_nodes) : hav[e] # hav[f]
    /\ first \notin { route[1], route[Len(route)] }

\* C9: when the segments chain into one simple path of n distinct
\* nodes, build_ordered_route returns all n nodes in path order or in the
\* reverse order, whichever node the first sweep starts from.
C9_ChainInPathOrder == (Returned /\ IsChain) => route \in PathOrders

\* Lemma: the same holds for a chain whose edges all have strictly positive
\* distance.
C9_PositiveChainInPathOrder ==
    (Returned /\ IsChain /\ PositiveEdges(comp_nodes)) => route \in PathOrders

\* A route returned for two segments chained into a path of four nodes or
\* more with edges of positive distance, the first sweep started inside the
\* path.
C9_Witness ==
    /\ Returned
    /\ IsChain
    /\ PositiveEdges(comp_nodes)
    /\ Len(segments) = 2
    /\ Cardinality(InputNodes) >= 4
    /\ Cardinality(Get(graph, first)) = 2

\* C10: for two segments with no shared coordinate that are simple
\* chains of m < n nodes, build_graph yields exactly two components, of
\* sizes m and n, largest_component returns the one of n nodes, and
\* build_ordered_route returns a route of exactly n nodes, none of the
\* shorter segment.
C10_LongerChainWhole ==
    \A s, l \in {1, 2} :
        (Returned /\ TwoChains(s, l)) =>
            /\ RefComponents = { Range(segments[s]), Range(segments[l]) }
            /\ comp_nodes = Range(segments[l])
            /\ Len(route) = Len(segments[l])
            /\ Range(route) \cap Range(segments[s]) = {}

\* Lemma: for m >= 2 the route has at most n nodes, and exactly n when every
\* edge of the longer segment has strictly positive distance.
C10_LongerChainSelected ==
    \A s, l \in {1, 2} :
        (Returned /\ TwoChains(s, l)) =>
            /\ RefComponents = { Range(segments[s]), Range(segments[l]) }
            /\ comp_nodes = Range(segments[l])
            /\ Len(route) <= Len(segments[l])
            /\ PositiveEdges(comp_nodes) => Len(route) = Len(segments[l])
            /\ Range(route) \cap Range(segments[s]) = {}

\* A route of three nodes returned for a segment of two points followed by
\* one of three, all of whose edges have positive distance.
C10_Witness ==
    /\ Returned
    /\ TwoChains(1, 2)
    /\ PositiveEdges(comp_nodes)
    /\ Len(route) = 3

----------------------------------------------------------------------------
\* Branching graphs.

Degree(n) == Cardinality(Get(graph, n))

\* The component C is a tree with one node of three neighbours and no other
\* branch node: three arms, each an unbranched chain.
IsBranching(C) ==
    /\ IsTree(C)
    /\ \E h \in C : /\ Degree(h) = 3
                    /\ \A n \in C \ {h} : Degree(n) <= 2

\* The unbranched runs of C: the simple paths no inner node of which is a
\* branch node.
UnbranchedRuns(C) ==
    { p \in SimplePaths(GraphAdj, C) : \A i \in 2 .. (Len(p) - 1) : Degree(p[i]) <= 2 }

----------------------------------------------------------------------------
\* C12: termini returns (first node, last node) of every non-empty route,
\* (p, p) for the one-node route of p, and the pair of origins for the empty
\* route; the call always returns.
C12_Termini ==
    /\ pc = "termini" => ENABLED Termini
    /\ pc = "termini_done" =>
          /\ route = << >> => ends = << Origin, Origin >>
          /\ Len(route) = 1 => ends = << route[1], route[1] >>
          /\ route # << >> => ends = << route[1], route[Len(route)] >>

\* termini has returned for a route of three nodes with different ends.
C12_Witness ==
    /\ pc = "termini_done"
    /\ Len(route) = 3
    /\ route[1] # route[3]
    /\ ends = << route[1], route[3] >>

\* termini has returned the pair of origins for the empty route.
C12_WitnessEmpty ==
    /\ pc = "termini_done"
    /\ route = << >>
    /\ ends = << Origin, Origin >>

----------------------------------------------------------------------------
\* No segment of the input has two points: the input has no edge.
NoEdgeInput == \A k \in DOMAIN segments : Len(segments[k]) < 2

\* C13: build_ordered_route runs to its return on every input (an empty
\* list, segments of fewer than 2 points and disconnected inputs included);
\* with no edge in the input the graph and the node set stay empty and the
\* route is empty; largest_component returns the empty set for an empty node
\* set and longest_path the empty path for an empty component.
C13_DegenerateInputs ==
    /\ pc # "done" => ENABLED Next
    /\ (Built /\ NoEdgeInput) => (graph = << >> /\ nodes = {})
    /\ (Selected /\ nodes = {}) => comp_nodes = {}
    /\ (Returned /\ comp_nodes = {}) => route = << >>
    /\ (Returned /\ NoEdgeInput) => route = << >>

\* build_ordered_route has returned for an input made of a one-point segment
\* and an empty segment.
C13_Witness ==
    /\ Returned
    /\ Len(segments) = 2
    /\ Len(segments[1]) = 1
    /\ Len(segments[2]) = 0
    /\ route = << >>

\* build_ordered_route has returned for an input of two components.
C13_WitnessDisconnected ==
    /\ Returned
    /\ Cardinality(RefComponents) = 2
    /\ route # << >>

----------------------------------------------------------------------------
\* A segment of length 0: no point at all, or two or more points that are
\* all the same point.
ZeroLength(seg) ==
    \/ Len(seg) = 0
    \/ Len(seg) >= 2 /\ \A i \in DOMAIN seg : seg[i] = seg[1]

Malformed == \E k \in DOMAIN segments : ZeroLength(segments[k])

\* C14: for an input with a segment of length 0 build_ordered_route ends in
\* an error at the boundary: it never returns a route.
C14_MalformedRejected == Malformed => ~Returned

----------------------------------------------------------------------------
\* C15: the graph build_graph returns is loop-free for every input, inputs
\* that repeat a point consecutively included: no node is in its own
\* neighbour set.
C15_LoopFree == Built => \A n \in DOMAIN graph : n \notin graph[n]

----------------------------------------------------------------------------
\* What build_ordered_route can return when it runs alone, as a function of
\* its input: the reference for two invocations that run together.

\* The nodes reachable from S in the graph g.
RECURSIVE ClosureIn(_, _)
ClosureIn(g, S) ==
    LET T == S \cup UNION { Get(g, x) : x \in S }
    IN  IF T = S THEN S ELSE ClosureIn(g, T)

\* The components of most nodes.
LargestIn(g, ns) ==
    LET Cs == { ClosureIn(g, {n}) : n \in ns }
    IN  { C \in Cs : \A D \in Cs : Cardinality(D) <= Cardinality(C) }

\* The edges of g between two different nodes.
EdgesIn(g) == UNION { { {a, b} : b \in g[a] \ {a} } : a \in DOMAIN g }

\* The distance functions on the edges E that agree with what haversine has
\* returned so far.
Distances(E) ==
    { w \in [ E -> 0 .. MaxW ] : \A e \in E \cap DOMAIN hav : w[e] = hav[e] }

\* The sweep state st = [visited, q, far] after `for nxt in ord` at node c.
RECURSIVE Relax(_, _, _, _)
Relax(w, st, c, ord) ==
    IF ord = << >> THEN st
    ELSE LET nxt == Head(ord)
         IN  IF nxt \in DOMAIN st.visited
             THEN Relax(w, st, c, Tail(ord))
             ELSE LET e == Visit(st.visited, c, nxt, w[{c, nxt}])
                  IN  Relax(w,
                            [ visited |-> (nxt :> e) @@ st.visited,
                              q       |-> Append(st.q, nxt),
                              far     |-> Farther(st.far, nxt, e.dist, e.path) ],
                            c, Tail(ord))

\* The results [farthest, maxdist, maxpath] a sweep in state st can end with,
\* over the orders in which the neighbour sets are iterated.
RECURSIVE SweepAll(_, _, _)
SweepAll(g, w, st) ==
    IF st.q = << >> THEN { st.far }
    ELSE LET c == Head(st.q)
         IN  UNION { SweepAll(g, w, Relax(w, [ st EXCEPT !.q = Tail(st.q) ], c, ord))
                       : ord \in Perms(Get(g, c)) }

SweepFrom(g, w, s) ==
    SweepAll(g, w, [ visited |-> (s :> [ dist |-> 0, path |-> << s >> ]),
                     q       |-> << s >>,
                     far     |-> [ farthest |-> s, maxdist |-> 0, maxpath |-> << s >> ] ])

\* The routes of segs under the distance function w.
RoutesUnder(g, ns, w) ==
    IF ns = {} THEN { << >> }
    ELSE UNION { UNION { UNION { { f2.maxpath : f2 \in SweepFrom(g, w, f1.farthest) }
                                   : f1 \in SweepFrom(g, w, s) }
                           : s \in C }
                   : C \in LargestIn(g, ns) }

SoloRoutes(segs) ==
    LET st == build_graph(segs)
    IN  UNION { RoutesUnder(st.graph, st.nodes, w) : w \in Distances(EdgesIn(st.graph)) }

\* The reference covers the single call: every route build_ordered_route
\* returns alone is one of SoloRoutes.
SoloCovered == (tid = 0 /\ Returned) => route \in SoloRoutes(segments)

BothReturned == tid # 0 /\ pc = "done" /\ other.pc = "done"

\* C16: when two invocations on independent inputs run with their steps
\* interleaved in any order, each returns a route it can return when it runs
\* alone on its input; no step of the running invocation changes a local of
\* the other, and a switch of threads changes no local of either.
C16_SameAsAlone ==
    /\ [](BothReturned => /\ route \in SoloRoutes(segments)
                          /\ other.route \in SoloRoutes(other.segments))
    /\ [][ /\ tid' = tid => other' = other
           /\ tid' # tid => (other' = Locals /\ Locals' = other) ]_vars

\* Both invocations have returned a route of three nodes, on inputs with no
\* point in common.
C16_Witness ==
    /\ BothReturned
    /\ Cardinality(nodes) = 3
    /\ Cardinality(other.nodes) = 3
    /\ nodes \cap other.nodes = {}
    /\ Len(route) = 3
    /\ Len(other.route) = 3

----------------------------------------------------------------------------
\* C17: no step changes the input segments, and no step of
\* largest_component or of either sweep of longest_path changes the graph
\* (its keys and its neighbour sets) or the node set, a step that looks up a
\* node without an entry in the graph included.
C17_NoSideEffects ==
    [][ /\ segments' = segments
        /\ pc # "build" => (graph' = graph /\ nodes' = nodes) ]_vars

\* The second sweep has looked up the neighbours of a node that has no entry
\* in the graph, and the graph has an entry for another node.
C17_Witness ==
    /\ sweep = 2
    /\ cur # 0
    /\ cur \notin DOMAIN graph
    /\ DOMAIN graph # {}

----------------------------------------------------------------------------
\* C18: for all nodes a and b of the input, every value d the distance of a
\* and b can have is 0 when a = b, is a value of the distance of b and a,
\* is not negative, and is 0 only when a = b.
C18_DistanceMetric ==
    \A a, b \in nodes : \A d \in Haversine(a, b) :
        /\ a = b => d = 0
        /\ d \in Haversine(b, a)
        /\ d >= 0
        /\ d = 0 => a = b

----------------------------------------------------------------------------
\* The rows of the table with route r.
RowsOf(r) == { row \in table : row.route = r }

\* C19: after every sequence of upload runs on the table ensure_table
\* created, two clients uploading the same route id at once included, the
\* table has at most one row for each route; and a step of a run that found
\* its route present either leaves the table as it is or, after the user has
\* confirmed, puts the run's coordinates in the route_path of that row and
\* changes nothing else.
C19_OneRowPerRoute ==
    /\ [](\A r \in RouteIds : Cardinality(RowsOf(r)) <= 1)
    /\ [][ \A c \in Clients :
             (client[c].pc \in { "prompt", "update" } /\ client'[c] # client[c]) =>
                 /\ client[c].exists
                 /\ \/ table' = table
                    \/ /\ client[c].pc = "update"
                       /\ table' = { IF row.route = client[c].route
                                     THEN [ id |-> row.id, route |-> row.route,
                                            route_path |-> client[c].coords ]
                                     ELSE row : row \in table } ]_vars

\* Two clients ran once each for the same route and both found it absent;
\* one inserted its row and the INSERT of the other was refused.
C19_Witness ==
    /\ client[1].runs = 1 /\ client[2].runs = 1
    /\ client[1].route = client[2].route
    /\ client[1].last = "inserted"
    /\ client[2].last = "raised"
    /\ Cardinality(RowsOf(client[1].route)) = 1

\* A run that found its route present has overwritten the row's route_path
\* with other coordinates.
C19_WitnessUpdate ==
    \E c \in Clients :
        /\ client[c].last = "updated"
        /\ client[c].exists
        /\ \E row \in table : /\ row.route = client[c].route
                              /\ row.route_path = client[c].coords
                              /\ \E d \in Clients \ {c} :
                                    /\ client[d].last = "inserted"
                                    /\ client[d].route = row.route
                                    /\ client[d].coords # row.route_path

----------------------------------------------------------------------------
\* main has stopped: it is at the upload prompt or an exception has ended it.
MainStopped == mpc \in { "prompt", "raised" }

\* C20: for a raw FeatureCollection, main stops only at the upload prompt,
\* after these steps in this order: the ordered route built, the ordered
\* geojson saved, the html generated, the html cleaned, and the termini
\* printed when the route is not empty.
C20_StepsThenPrompt ==
    (MainStopped /\ ~already_ordered) =>
        /\ mpc = "prompt"
        /\ log = << "build", "geojson", "html", "clean" >>
                   \o (IF route # << >> THEN << "termini" >> ELSE << >>)

----------------------------------------------------------------------------
\* C21: for a non-empty node set the set largest_component returns is one
\* connected component of the graph: each of its nodes is reachable from
\* each other one through graph edges, and no neighbour of one of its nodes
\* lies outside it.
C21_IsOneComponent ==
    (Selected /\ nodes # {}) =>
        /\ comp_nodes # {}
        /\ comp_nodes \subseteq nodes
        /\ \A a, b \in comp_nodes : b \in Closure({a})
        /\ \A a \in comp_nodes : Get(graph, a) \subseteq comp_nodes

\* largest_component has returned a component of several nodes with a cycle
\* or self-loop, in a graph that has another component as well.
C21_Witness ==
    /\ Selected
    /\ Cardinality(RefComponents) = 2
    /\ Cardinality(comp_nodes) >= 2
    /\ Cardinality(CompEdges(comp_nodes)) >= Cardinality(comp_nodes)

----------------------------------------------------------------------------
\* A sweep of _bfs_longest_path is running; at SweepEnded its queue is empty
\* and it is about to return.
InSweep == pc \in { "bfs_while", "bfs_for" }

SweepEnded == pc = "bfs_while" /\ q = << >>

\* The nodes the running sweep has dequeued: recorded and no longer queued.
Dequeued == (DOMAIN visited) \ Range(q)

\* C22: in each sweep of _bfs_longest_path a node reachable from the start
\* is recorded in visited once and dequeued once: only nodes reachable from
\* the start are recorded, the queue holds recorded nodes and none twice, a
\* node enters the queue only at the step that records it, a recorded entry
\* (distance and path) is never changed afterwards, a dequeued node is never
\* queued again, and when the queue is empty every node reachable from the
\* start is recorded.
C22_VisitedOnce ==
    /\ [](InSweep =>
            /\ DOMAIN visited \subseteq Closure({start})
            /\ Range(q) \subseteq DOMAIN visited
            /\ NoRepeat(q)
            /\ (SweepEnded => DOMAIN visited = Closure({start})))
    /\ [][(InSweep /\ InSweep' /\ sweep' = sweep) =>
            /\ \A n \in DOMAIN visited :
                  n \in DOMAIN visited' /\ visited'[n] = visited[n]
            /\ \A n \in Range(q') \ Range(q) : n \notin DOMAIN visited
            /\ \A n \in Dequeued : n \notin Range(q')]_vars

\* The second sweep has ended with three nodes or more recorded, on a
\* component that has a self-loop.
C22_Witness ==
    /\ SweepEnded
    /\ sweep = 2
    /\ Cardinality(DOMAIN visited) >= 3
    /\ \E n \in comp_nodes : n \in Get(graph, n)

----------------------------------------------------------------------------
\* The result (farthest, maxdist, maxpath) of the running sweep is a recorded
\* node of maximum recorded distance, with its recorded distance and path.
FarIsMaximum ==
    /\ far.farthest \in DOMAIN visited
    /\ far.maxdist = visited[far.farthest].dist
    /\ far.maxpath = visited[far.farthest].path
    /\ \A n \in DOMAIN visited : visited[n].dist <= far.maxdist

\* C23: the first sweep returns a node of the maximum distance it recorded,
\* farthest_1; the second sweep starts from farthest_1 and keeps this start;
\* it returns a node farthest_2 whose recorded distance is at least that of
\* every node it visited; and the route longest_path returns is the path the
\* second sweep recorded for farthest_2, from farthest_1 to farthest_2.
C23_FarthestToFarthest ==
    /\ [](SweepEnded => FarIsMaximum)
    /\ [][(/\ InSweep
           /\ sweep' # sweep => start' = far.farthest
           /\ sweep = 2 => start' = start)
          \/ ~InSweep]_vars
    /\ []((Returned /\ comp_nodes # {}) =>
            /\ FarIsMaximum
            /\ route = visited[far.farthest].path
            /\ route[1] = start
            /\ route[Len(route)] = far.farthest)

\* A route of three nodes or more has been returned for a component of four
\* nodes or more, the first sweep having started at a node that is not
\* farthest_1.
C23_Witness ==
    /\ Returned
    /\ Len(route) >= 3
    /\ Cardinality(comp_nodes) >= 4
    /\ first # start

----------------------------------------------------------------------------
\* The fewest edges of a walk of the graph from the nodes S to n, S being
\* the nodes within k edges of where the count began; -1 when there is none.
RECURSIVE HopsFrom(_, _, _)
HopsFrom(S, n, k) ==
    LET T == S \cup UNION { Get(graph, x) : x \in S }
    IN  IF n \in S THEN k
        ELSE IF T = S THEN -1
        ELSE HopsFrom(T, n, k + 1)

\* C24: at every point of a sweep from start, for every recorded node n the
\* recorded path starts at start, ends at n, follows edges of the graph, has
\* the fewest edges a walk from start to n can have, and the recorded
\* distance is the sum of the distances of the edges of the recorded path.
C24_RecordedPaths ==
    InSweep =>
        \A n \in DOMAIN visited :
            LET p == visited[n].path
            IN  /\ p # << >>
                /\ p[1] = start
                /\ p[Len(p)] = n
                /\ IsWalk(p)
                /\ Len(p) - 1 = HopsFrom({start}, n, 0)
                /\ \A i \in 1 .. (Len(p) - 1) : {p[i], p[i + 1]} \in DOMAIN hav
                /\ visited[n].dist = PathDist(p)

\* A sweep has recorded, in a component with a cycle, a node two edges away
\* at a distance that is not the least distance from the start to it: a
\* path of as many edges with a smaller sum has its edges measured too.
C24_Witness ==
    /\ InSweep
    /\ \E n \in DOMAIN visited : \E m \in Get(graph, start) \cap Get(graph, n) :
          /\ Len(visited[n].path) = 3
          /\ {start, m} \in DOMAIN hav
          /\ {m, n} \in DOMAIN hav
          /\ hav[{start, m}] + hav[{m, n}] < visited[n].dist

----------------------------------------------------------------------------
\* The undirected pairs of consecutive points of the segments segs.
UPairs(segs) ==
    UNION { { { segs[k][i], segs[k][i + 1] } : i \in 1 .. (Len(segs[k]) - 1) } :
            k \in DOMAIN segs }

Reverse(s) == [ i \in 1 .. Len(s) |-> s[Len(s) + 1 - i] ]

\* segs with its segments permuted in every way.
Permuted(segs) ==
    { [ i \in DOMAIN segs |-> segs[p[i]] ] : p \in Perms(DOMAIN segs) }

\* segs with the segments of every set of positions reversed.
Reversed(segs) ==
    { [ i \in DOMAIN segs |-> IF i \in R THEN Reverse(segs[i]) ELSE segs[i] ] :
      R \in SUBSET (DOMAIN segs) }

\* segs, and segs with a second copy of one of its segments.
Duplicated(segs) == {segs} \cup { Append(segs, segs[k]) : k \in DOMAIN segs }

\* The inputs made from segs by duplicating, reversing and permuting.
Rearranged(segs) ==
    UNION { UNION { Permuted(r) : r \in Reversed(d) } : d \in Duplicated(segs) }

\* build_graph has returned and largest_component has not yet taken a node.
JustBuilt == pc = "lc_for" /\ iter = nodes /\ seen = {}

\* C25: the graph and node set build_graph returns are those of the set of
\* undirected pairs of consecutive points of the input (the nodes are the
\* points of the pairs, the neighbours of a node the points paired with it),
\* and build_graph returns the same graph and node set for the input with
\* its segments permuted, any of them reversed, or one of them duplicated.
C25_PairsOnly ==
    JustBuilt =>
        /\ nodes = UNION UPairs(segments)
        /\ DOMAIN graph = nodes
        /\ \A a \in nodes : graph[a] = { b \in Node : {a, b} \in UPairs(segments) }
        /\ \A r \in Rearranged(segments) :
              /\ build_graph(r).graph = graph
              /\ build_graph(r).nodes = nodes

\* build_graph has returned for two different segments of two points or
\* more that share a node, the first not its own reverse.
C25_Witness ==
    /\ JustBuilt
    /\ Len(segments) = 2
    /\ Len(segments[1]) >= 2
    /\ Len(segments[2]) >= 2
    /\ segments[1] # segments[2]
    /\ Reverse(segments[1]) # segments[1]
    /\ Range(segments[1]) \cap Range(segments[2]) # {}

----------------------------------------------------------------------------
\* C26: when the component largest_component returns is one node n, the
\* graph has n as its own neighbour, from a segment that holds n twice in
\* a row; the sweeps of longest_path record n alone, at distance 0 with the
\* path [n], and measure no edge of the component (the self-loop is not
\* traversed); and longest_path returns the route [n].
C26_SingleNode ==
    \A n \in Node :
        (Selected /\ comp_nodes = {n}) =>
            /\ n \in Get(graph, n)
            /\ Consecutive(n, n)
            /\ InSweep \/ Returned =>
                  /\ visited = (n :> [ dist |-> 0, path |-> << n >> ])
                  /\ far = [ farthest |-> n, maxdist |-> 0, maxpath |-> << n >> ]
                  /\ hav = << >>
            /\ Returned => route = << n >>

\* longest_path has returned for a component of one node, in a graph of two
\* such components.
C26_Witness ==
    /\ Returned
    /\ Cardinality(comp_nodes) = 1
    /\ Cardinality(nodes) = 2

----------------------------------------------------------------------------
\* The call as it runs: Python executes one thread of straight-line code, so
\* a step that can be taken is taken.
SpecFair == Spec /\ WF_vars(Next)

\* C27: the traversal of largest_component and the sweeps of longest_path
\* terminate: whenever the traversal of a component is running its stack
\* becomes empty, whenever a sweep is running its queue becomes empty with
\* the sweep at its return, and the call returns.
C27_Terminates ==
    /\ (pc = "lc_while") ~> (pc = "lc_while" /\ stack = << >>)
    /\ InSweep ~> SweepEnded
    /\ <>Returned

\* The call has returned for a component with a branch point that carries a
\* self-loop, and with a cycle or self-loop more.
C27_Witness ==
    /\ Returned
    /\ \E n \in comp_nodes : n \in Get(graph, n) /\ Degree(n) >= 3
    /\ Cardinality(CompEdges(comp_nodes)) >= Cardinality(comp_nodes) + 1

----------------------------------------------------------------------------
\* Every distance the call has measured between two nodes is strictly
\* positive: the state is one of a run in which every edge between distinct
\* nodes has a strictly positive distance.
MeasuredPositive == \A e \in DOMAIN hav : hav[e] > 0

\* C28: when every edge between distinct nodes has a strictly positive
\* distance and the selected component has two nodes or more, the route
\* build_ordered_route returns has two nodes or more and its two termini
\* are different nodes.
C28_DistinctTermini ==
    (Returned /\ MeasuredPositive /\ Cardinality(comp_nodes) >= 2) =>
        /\ Len(route) >= 2
        /\ termini(route)[1] # termini(route)[2]

\* The call has returned, all measured distances positive, for a component
\* of three nodes or more with a cycle or self-loop.
C28_Witness ==
    /\ Returned
    /\ MeasuredPositive
    /\ Cardinality(comp_nodes) >= 3
    /\ Cardinality(CompEdges(comp_nodes)) >= Cardinality(comp_nodes)

----------------------------------------------------------------------------
\* src/standalone_scripts/convert_route.py: build_route_topology and the
\* functions it calls, run beside RouteTopology.build_ordered_route on the
\* same segments.  alt.s holds the locals of the standalone run under the
\* names of the class's; alt.mode says which of the two runs takes each step
\* first ("follow": the class, "lead": the standalone script), the other one
\* then taking its next step with the same iteration order.

\* The variables of the call without the measured distances.
callVars == << segments, pc, graph, nodes, iter, seen, components, stack, comp,
               comp_nodes, sweep, start, visited, q, cur, todo, far, first, route >>

\* The locals of the class's call, as a record of the shape of alt.s.
View ==
    [ pc |-> pc, graph |-> graph, nodes |-> nodes, iter |-> iter, seen |-> seen,
      components |-> components, stack |-> stack, comp |-> comp,
      comp_nodes |-> comp_nodes, sweep |-> sweep, start |-> start,
      visited |-> visited, q |-> q, cur |-> cur, todo |-> todo, far |-> far,
      route |-> route ]

\* The two runs are at the same place with equal locals.
Synced == alt.s = View

\* haversine(cur[1], cur[0], neigh[1], neigh[0]) of convert_route.py: the
\* expression of GeoMath.haversine with R = 6371.0 written in place, so the
\* value GeoMath.haversine has for the same two points.
CrHaversine(a, b) == Haversine(a, b)

\* nodes.update([a, b]); graph.setdefault(a, set()).add(b);
\* graph.setdefault(b, set()).add(a)
CrAddPair(st, a, b) ==
    [ graph |-> SetDefaultAdd(SetDefaultAdd(st.graph, a, b), b, a),
      nodes |-> st.nodes \cup {a, b} ]

\* for i in range(len(seg) - 1), from i on (i counted from 1)
RECURSIVE CrBuildSeg(_, _, _)
CrBuildSeg(st, seg, i) ==
    IF i >= Len(seg) THEN st
    ELSE CrBuildSeg(CrAddPair(st, seg[i], seg[i + 1]), seg, i + 1)

\* for seg in segments, from the k-th on
RECURSIVE CrBuildSegs(_, _, _)
CrBuildSegs(st, segs, k) ==
    IF k > Len(segs) THEN st
    ELSE CrBuildSegs(CrBuildSeg(st, segs[k], 1), segs, k + 1)

\* build_graph of convert_route.py
CrBuildGraphOf(segs) == CrBuildSegs([ graph |-> << >>, nodes |-> {} ], segs, 1)

\* return set(components[0]) if components else set()
CrFirstAsSet(cs) == IF cs # << >> THEN Range(cs[1]) ELSE {}

\* CrFarther with `if ndist >= maxdist`.
CrFartherOrEqual(f, nxt, ndist, npath) ==
    IF ndist >= f.maxdist
    THEN [ farthest |-> nxt, maxdist |-> ndist, maxpath |-> npath ]
    ELSE f

\* if ndist > maxdist: farthest, maxdist, maxpath = neigh, ndist, path + [neigh]
CrFarther(f, nxt, ndist, npath) ==
    IF ndist > f.maxdist
    THEN [ farthest |-> nxt, maxdist |-> ndist, maxpath |-> npath ]
    ELSE f

\* visited = {start: (0.0, [start])}; q = deque([start]);
\* farthest, maxdist, maxpath = start, 0.0, [start]
CrBfsEnter(st, s) ==
    [ st EXCEPT !.start = s,
                !.visited = (s :> [ dist |-> 0, path |-> << s >> ]),
                !.q = << s >>,
                !.far = [ farthest |-> s, maxdist |-> 0, maxpath |-> << s >> ],
                !.cur = 0,
                !.todo = {} ]

\* The standalone run may take a step: first when it leads, second when it
\* follows.
CrTurn == IF alt.mode = "lead" THEN Synced ELSE ~Synced

\* The class's run may take a step.
ClassTurn == IF alt.mode = "follow" THEN Synced ELSE ~Synced

\* The step taken second is the one of the same iteration order: it brings
\* the follower to the leader's locals.
CrSameOrder == alt.mode = "follow" => Synced'

ClassSameOrder == alt.mode = "lead" => Synced'

InitBoth ==
    /\ segments \in Inputs
    /\ pc = "build"
    /\ NoCall
    /\ route = << >>
    /\ ends = << >>
    /\ NoPar
    /\ NoDb
    /\ NoMain
    /\ alt \in { [ mode |-> m, s |-> View ] : m \in { "follow", "lead" } }
    /\ NoConn

\* build_route_topology: graph, nodes = build_graph(raw_segments)
CrBuildGraph ==
    /\ CrTurn
    /\ alt.s.pc = "build"
    /\ LET st == CrBuildGraphOf(segments)
       IN  alt' = [ alt EXCEPT !.s.graph = st.graph, !.s.nodes = st.nodes,
                               !.s.iter = st.nodes, !.s.pc = "lc_for" ]
    /\ UNCHANGED << topoVars, ends, parVars, dbVars, mainVars, connVars >>
    /\ CrSameOrder

\* for node in nodes: if node in seen: continue; stack, comp = [node], []
CrLcFor ==
    /\ CrTurn
    /\ alt.s.pc = "lc_for"
    /\ \E node \in alt.s.iter :
         alt' = IF node \in alt.s.seen
                THEN [ alt EXCEPT !.s.iter = @ \ {node} ]
                ELSE [ alt EXCEPT !.s.iter = @ \ {node}, !.s.stack = << node >>,
                                  !.s.comp = << >>, !.s.pc = "lc_while" ]
    /\ UNCHANGED << topoVars, ends, parVars, dbVars, mainVars, connVars >>
    /\ CrSameOrder

\* One turn of `while stack`: cur = stack.pop(); if cur in seen: continue;
\* seen.add(cur); comp.append(cur);
\* for neigh in graph.get(cur, []): if neigh not in seen: stack.append(neigh)
CrLcWhile ==
    /\ CrTurn
    /\ alt.s.pc = "lc_while"
    /\ alt.s.stack # << >>
    /\ LET st   == alt.s.stack
           top  == st[Len(st)]
           rest == SubSeq(st, 1, Len(st) - 1)
       IN  IF top \in alt.s.seen
           THEN alt' = [ alt EXCEPT !.s.stack = rest ]
           ELSE \E ord \in Perms({ n \in Get(alt.s.graph, top) :
                                     n \notin alt.s.seen \cup {top} }) :
                  alt' = [ alt EXCEPT !.s.seen = @ \cup {top},
                                      !.s.comp = Append(@, top),
                                      !.s.stack = rest \o ord ]
    /\ UNCHANGED << topoVars, ends, parVars, dbVars, mainVars, connVars >>
    /\ CrSameOrder

\* components.append(comp)
CrLcAppend ==
    /\ CrTurn
    /\ alt.s.pc = "lc_while"
    /\ alt.s.stack = << >>
    /\ alt' = [ alt EXCEPT !.s.components = Append(@, alt.s.comp), !.s.pc = "lc_for" ]
    /\ UNCHANGED << topoVars, ends, parVars, dbVars, mainVars, connVars >>
    /\ CrSameOrder

\* components.sort(key=len, reverse=True);
\* return set(components[0]) if components else set()
CrLcReturn ==
    /\ CrTurn
    /\ alt.s.pc = "lc_for"
    /\ alt.s.iter = {}
    /\ alt' = [ alt EXCEPT !.s.comp_nodes = CrFirstAsSet(SortByLenDesc(alt.s.components)),
                           !.s.pc = "longest_path",
                           \* the locals of largest_component end with the call
                           !.s.seen = {}, !.s.components = << >>,
                           !.s.stack = << >>, !.s.comp = << >> ]
    /\ UNCHANGED << topoVars, ends, parVars, dbVars, mainVars, connVars >>
    /\ CrSameOrder

\* longest_path of convert_route.py, to the first call of bfs_longest_path.
CrLongestPath ==
    /\ CrTurn
    /\ alt.s.pc = "longest_path"
    /\ IF alt.s.comp_nodes = {}
       THEN alt' = [ alt EXCEPT !.s.route = << >>, !.s.pc = "done" ]
       ELSE \E s \in alt.s.comp_nodes :
              alt' = [ alt EXCEPT !.s = [ CrBfsEnter(@, s) EXCEPT
                                            !.sweep = 1, !.pc = "bfs_while" ] ]
    /\ UNCHANGED << topoVars, ends, parVars, dbVars, mainVars, connVars >>
    /\ CrSameOrder

\* cur = q.popleft(); dist, path = visited[cur]; for neigh in graph.get(cur, [])
CrBfsPop ==
    /\ CrTurn
    /\ alt.s.pc = "bfs_while"
    /\ alt.s.q # << >>
    /\ LET c  == Head(alt.s.q)
           ns == Get(alt.s.graph, c)
       IN  alt' = [ alt EXCEPT !.s.cur = c, !.s.q = Tail(@), !.s.todo = ns,
                               !.s.pc = IF ns = {} THEN "bfs_while" ELSE "bfs_for" ]
    /\ UNCHANGED << topoVars, ends, parVars, dbVars, mainVars, connVars >>
    /\ CrSameOrder

\* One turn of `for neigh in graph.get(cur, [])`.
CrBfsFor ==
    /\ CrTurn
    /\ alt.s.pc = "bfs_for"
    /\ \E nxt \in alt.s.todo :
        LET left == alt.s.todo \ {nxt}
            npc  == IF left = {} THEN "bfs_while" ELSE "bfs_for"
            c    == alt.s.cur
        IN  IF nxt \in DOMAIN alt.s.visited
            THEN /\ alt' = [ alt EXCEPT !.s.todo = left, !.s.pc = npc ]
                 /\ UNCHANGED hav
            ELSE \E seglen \in CrHaversine(c, nxt) :
                   LET ndist == alt.s.visited[c].dist + seglen
                       npath == Append(alt.s.visited[c].path, nxt)
                   IN  /\ hav' = [ p \in (DOMAIN hav) \cup {{c, nxt}} |->
                                     IF p = {c, nxt} THEN seglen ELSE hav[p] ]
                       /\ alt' = [ alt EXCEPT
                                    !.s.todo = left, !.s.pc = npc,
                                    !.s.visited =
                                        [ n \in (DOMAIN @) \cup {nxt} |->
                                            IF n = nxt
                                            THEN [ dist |-> ndist, path |-> npath ]
                                            ELSE @[n] ],
                                    !.s.far = CrFarther(@, nxt, ndist, npath),
                                    !.s.q = Append(@, nxt) ]
    /\ UNCHANGED << callVars, ends, parVars, dbVars, mainVars, connVars >>
    /\ CrSameOrder

\* return farthest, maxdist, maxpath: to longest_path, which calls
\* bfs_longest_path(graph, farthest) and returns the path of that call.
CrBfsReturn ==
    /\ CrTurn
    /\ alt.s.pc = "bfs_while"
    /\ alt.s.q = << >>
    /\ IF alt.s.sweep = 1
       THEN alt' = [ alt EXCEPT !.s = [ CrBfsEnter(@, alt.s.far.farthest) EXCEPT
                                          !.sweep = 2 ] ]
       ELSE alt' = [ alt EXCEPT !.s.route = alt.s.far.maxpath, !.s.pc = "done" ]
    /\ UNCHANGED << topoVars, ends, parVars, dbVars, mainVars, connVars >>
    /\ CrSameOrder

\* The steps of RouteTopology.build_ordered_route, taken in turn with those
\* of the standalone run.
ClassBuildGraph == ClassTurn /\ BuildGraph /\ ClassSameOrder
ClassLcFor == ClassTurn /\ LcFor /\ ClassSameOrder
ClassLcWhile == ClassTurn /\ LcWhile /\ ClassSameOrder
ClassLcAppend == ClassTurn /\ LcAppend /\ ClassSameOrder
ClassLcReturn == ClassTurn /\ LcReturn /\ ClassSameOrder
ClassLongestPath == ClassTurn /\ LongestPath /\ ClassSameOrder
ClassBfsPop == ClassTurn /\ BfsPop /\ ClassSameOrder
ClassBfsFor == ClassTurn /\ BfsFor /\ ClassSameOrder
ClassBfsReturn == ClassTurn /\ BfsReturn /\ ClassSameOrder

NextBoth ==
    \/ ClassBuildGraph
    \/ ClassLcFor
    \/ ClassLcWhile
    \/ ClassLcAppend
    \/ ClassLcReturn
    \/ ClassLongestPath
    \/ ClassBfsPop
    \/ ClassBfsFor
    \/ ClassBfsReturn
    \/ CrBuildGraph
    \/ CrLcFor
    \/ CrLcWhile
    \/ CrLcAppend
    \/ CrLcReturn
    \/ CrLongestPath
    \/ CrBfsPop
    \/ CrBfsFor
    \/ CrBfsReturn

SpecBoth == InitBoth /\ [][NextBoth]_vars

\* Both runs have returned.
BothDone == pc = "done" /\ alt.s.pc = "done"

\* C29: build_route_topology of convert_route.py and
\* RouteTopology.build_ordered_route, run on the same segments, stay in step:
\* whichever of the two takes a step first, the other one can take its next
\* step with the same iteration order and then has the same locals (graph,
\* node set, component, recorded distances and paths); a run that has
\* returned is followed by the other one's return; and the two routes
\* returned are equal.  So for the same iteration order the two return the
\* same route, and the routes possible for one are those possible for the
\* other.
C29_SameRoute ==
    /\ Synced \/ ENABLED NextBoth
    /\ BothDone => alt.s.route = route

\* Both runs have returned a route of three nodes or more, the standalone
\* script having taken each step first, for a graph of two components or
\* more.
C29_Witness ==
    /\ BothDone
    /\ alt.mode = "lead"
    /\ Len(alt.s.route) >= 3
    /\ Cardinality(nodes) > Cardinality(comp_nodes)

\* As C29_Witness, the class having taken each step first.
C29_WitnessFollow ==
    /\ BothDone
    /\ alt.mode = "follow"
    /\ Len(route) >= 3
    /\ Cardinality(nodes) > Cardinality(comp_nodes)

----------------------------------------------------------------------------
\* DBManager as a context manager: `with dbm:` entered, a body of calls of
\* ensure_database, ensure_table, route_exists and upload_one_row, any of
\* which may raise where it runs SQL or connects, and the block left.

\* The calls a body makes at most.
MaxCalls == 3

Methods == { "ensure_database", "ensure_table", "route_exists", "upload_one_row" }

\* close_conn: try: if self._conn: self._conn.close() / except Exception:
\* pass / finally: self._conn = None, on st = [dbm, opened].  close() of a
\* psycopg2 connection closes it.
close_conn(st) ==
    [ dbm    |-> [ st.dbm EXCEPT !.conn = None ],
      opened |-> IF st.dbm.conn # None THEN st.opened \ {st.dbm.conn} ELSE st.opened ]

\* ConnectClose left out: connect opens the new connection at once.
ConnectKeep(st) == st

\* connect: self.close_conn(), before psycopg2.connect
ConnectClose(st) == close_conn(st)

\* close: self.close_conn(); try: if self._tunnel: self._tunnel.stop() /
\* except Exception: pass / finally: self._tunnel = None;
\* self._local_port = None
close(st) ==
    LET c == close_conn(st)
    IN  [ dbm    |-> [ c.dbm EXCEPT !.tunnel = None, !.local_port = None ],
          opened |-> c.opened ]

\* dbm = DBManager(): __init__ has set the three attributes to None.
InitConn ==
    /\ dbm = [ conn |-> None, tunnel |-> None, local_port |-> None ]
    /\ opened = {}
    /\ wpc = [ at |-> "created", m |-> "none", n |-> 0, raised_at |-> "none",
               exc |-> FALSE, stop |-> "none" ]
    /\ segments = << >>
    /\ pc = "idle"
    /\ route = << >>
    /\ NoCall
    /\ ends = << >>
    /\ NoPar
    /\ NoDb
    /\ NoMain
    /\ NoAlt

\* __enter__: open_tunnel sets _tunnel, starts it and sets _local_port; when
\* start() raises the block is not entered.
WithEnter ==
    /\ wpc.at = "created"
    /\ \E started \in BOOLEAN :
         /\ dbm' = [ dbm EXCEPT !.tunnel = 1,
                                !.local_port = IF started THEN 1 ELSE None ]
         /\ wpc' = [ wpc EXCEPT !.at = IF started THEN "body" ELSE "enter_failed" ]
    /\ UNCHANGED opened
    /\ UNCHANGED << topoVars, ends, parVars, dbVars, mainVars, alt >>

\* ensure_database with an unsafe name: raise ValueError, before connect.
EnsureDatabaseUnsafe ==
    /\ wpc.at = "body"
    /\ wpc.n < MaxCalls
    /\ wpc' = [ wpc EXCEPT !.at = "raised", !.m = "ensure_database", !.n = @ + 1,
                           !.raised_at = "args" ]
    /\ UNCHANGED << dbm, opened >>
    /\ UNCHANGED << topoVars, ends, parVars, dbVars, mainVars, alt >>

\* upload_one_row with no coordinates: return, before connect.
UploadNoCoords ==
    /\ wpc.at = "body"
    /\ wpc.n < MaxCalls
    /\ wpc' = [ wpc EXCEPT !.m = "upload_one_row", !.n = @ + 1 ]
    /\ UNCHANGED << dbm, opened >>
    /\ UNCHANGED << topoVars, ends, parVars, dbVars, mainVars, alt >>

\* One of the four methods called, to the first line of connect:
\* self.close_conn()
ConnectBegin ==
    /\ wpc.at = "body"
    /\ wpc.n < MaxCalls
    /\ \E m \in Methods :
         wpc' = [ wpc EXCEPT !.at = "connecting", !.m = m, !.n = @ + 1 ]
    /\ LET st == ConnectClose([ dbm |-> dbm, opened |-> opened ])
       IN  dbm' = st.dbm /\ opened' = st.opened
    /\ UNCHANGED << topoVars, ends, parVars, dbVars, mainVars, alt >>

\* connect: self._conn = psycopg2.connect(...), which returns a new open
\* connection or raises.
ConnectOpen ==
    /\ wpc.at = "connecting"
    /\ \E ok \in BOOLEAN :
         IF ok
         THEN /\ dbm' = [ dbm EXCEPT !.conn = wpc.n ]
              /\ opened' = opened \cup {wpc.n}
              /\ wpc' = [ wpc EXCEPT !.at = "work" ]
         ELSE /\ wpc' = [ wpc EXCEPT !.at = "raised", !.raised_at = "connect" ]
              /\ UNCHANGED << dbm, opened >>
    /\ UNCHANGED << topoVars, ends, parVars, dbVars, mainVars, alt >>

\* The method runs its SQL and ends with self.close_conn().
MethodReturn ==
    /\ wpc.at = "work"
    /\ LET st == close_conn([ dbm |-> dbm, opened |-> opened ])
       IN  dbm' = st.dbm /\ opened' = st.opened
    /\ wpc' = [ wpc EXCEPT !.at = "body" ]
    /\ UNCHANGED << topoVars, ends, parVars, dbVars, mainVars, alt >>

\* The SQL of the method raises: upload_one_row closes the connection in
\* its finally, the other three leave it as it is.
MethodRaise ==
    /\ wpc.at = "work"
    /\ LET st == IF wpc.m = "upload_one_row"
                 THEN close_conn([ dbm |-> dbm, opened |-> opened ])
                 ELSE [ dbm |-> dbm, opened |-> opened ]
       IN  dbm' = st.dbm /\ opened' = st.opened
    /\ wpc' = [ wpc EXCEPT !.at = "raised", !.raised_at = "work" ]
    /\ UNCHANGED << topoVars, ends, parVars, dbVars, mainVars, alt >>

\* The body catches the exception and goes on.
BodyCatch ==
    /\ wpc.at = "raised"
    /\ wpc' = [ wpc EXCEPT !.at = "body" ]
    /\ UNCHANGED << dbm, opened >>
    /\ UNCHANGED << topoVars, ends, parVars, dbVars, mainVars, alt >>

\* The block is left, the body having completed or raised: __exit__ calls
\* close(); the tunnel's stop() returns or raises.
WithExit ==
    /\ wpc.at \in { "body", "raised" }
    /\ LET st == close([ dbm |-> dbm, opened |-> opened ])
       IN  dbm' = st.dbm /\ opened' = st.opened
    /\ \E stopped \in BOOLEAN :
         wpc' = [ wpc EXCEPT !.at = "left", !.exc = (wpc.at = "raised"),
                             !.stop = IF stopped THEN "returned" ELSE "raised" ]
    /\ UNCHANGED << topoVars, ends, parVars, dbVars, mainVars, alt >>

NextConn ==
    \/ WithEnter
    \/ EnsureDatabaseUnsafe
    \/ UploadNoCoords
    \/ ConnectBegin
    \/ ConnectOpen
    \/ MethodReturn
    \/ MethodRaise
    \/ BodyCatch
    \/ WithExit

SpecConn == InitConn /\ [][NextConn]_vars

\* C30: a DBManager has one open connection at most at any time, the one
\* _conn holds (connect closes the one held before it opens another); and
\* when a `with` block that was entered has been left, its body having
\* completed or raised after any calls of the four methods, _conn, _tunnel
\* and _local_port are None and no connection is open.
C30_OneConnectionCleared ==
    /\ Cardinality(opened) <= 1
    /\ opened = IF dbm.conn = None THEN {} ELSE {dbm.conn}
    /\ wpc.at = "left" =>
         /\ dbm = [ conn |-> None, tunnel |-> None, local_port |-> None ]
         /\ opened = {}

\* The block has been left with an exception that the SQL of ensure_table
\* raised in the second call or later, its connection open, and stop() of
\* the tunnel has raised.
C30_Witness ==
    /\ wpc.at = "left"
    /\ wpc.exc
    /\ wpc.raised_at = "work"
    /\ wpc.m = "ensure_table"
    /\ wpc.n >= 2
    /\ wpc.stop = "raised"

\* A method has connected in a body in which the SQL of an earlier method
\* raised and the body went on.
C30_WitnessReconnect ==
    /\ wpc.at = "work"
    /\ wpc.raised_at = "work"
    /\ wpc.n >= 2

====
